---- MODULE Spec2Model ----
(***************************************************************************)
(* Chart timeline compiler of kson-rs: the score tick generator            *)
(* (src/src/score_ticks.rs) and the effect timeline builder                *)
(* (src/kson/src/effects.rs), as pure functions applied to bounded charts. *)
(***************************************************************************)
EXTENDS Integers, Sequences, FiniteSets, TLC

VARIABLES
    chart,            \* the immutable chart handed to every operation
    overflow_checks,  \* build profile: TRUE = u32 overflow panics (debug), FALSE = it wraps (release)
    score_ticks,      \* the compiled timeline a ScoreTicker operation is applied to
    call,             \* the operation applied last, with its arguments
    ret               \* what that operation returned

vars == <<chart, overflow_checks, score_ticks, call, ret>>

(***************************************************************************)
(* Bounds of the model.                                                    *)
(***************************************************************************)
MaxTick == 6      \* largest start tick of an interval, a section or a BPM change
MaxLen == 6       \* largest length of an interval
MaxSectionTick == 3  \* largest start tick of a laser section
MaxRy == 5        \* largest offset ry of a control point
MaxPoints == 3    \* most control points of a laser section
MaxNotes == 2     \* most notes and laser sections of a compiled chart
MaxNoteTick == 2  \* largest start tick of a note of a compiled chart
MaxEffectTick == 3  \* largest tick of a parameter change, a pulse event or an effect interval
MaxChanges == 2   \* most scheduled parameter changes of an effect
MaxPulses == 2    \* most laser pulse events of a chart
MaxTimeline == 4  \* most ticks of a timeline handed to the ScoreTicker operations
MaxComboTick == 2 \* largest position of a tick of such a timeline
MaxRaw == 2       \* largest raw parameter string (raw strings are numbered from 0)

\* Tick resolutions of the modelled charts (6 makes the integer divisions inexact).
Resolutions == {4, 6}
\* BPM values on both sides of the quantizer's threshold, and the threshold itself.
Bpms == {255, 256}
BpmThreshold == 255

Ticks == 0 .. MaxTick
Lens == 0 .. MaxLen

NoValue == -1     \* Option::None of a slam target

(***************************************************************************)
(* Chart model (external collaborator): BPM map and resolution.            *)
(***************************************************************************)
\* The BPM active at tick y: the value of the last BPM entry at or before y.
RECURSIVE bpm_scan(_, _, _, _)
bpm_scan(bpm, y, i, cur) ==
    IF i > Len(bpm) \/ bpm[i].y > y THEN cur
    ELSE bpm_scan(bpm, y, i + 1, bpm[i].v)

bpm_at_tick(c, y) == bpm_scan(c.beat.bpm, y, 1, c.beat.bpm[1].v)

\* The tick of the last BPM change: from there on the quantization step is constant.
LastBpmTick(c) == c.beat.bpm[Len(c.beat.bpm)].y

(***************************************************************************)
(* Tick quantizer.                                                         *)
(***************************************************************************)
get_hold_step_at_strict(y, c) ==
    IF bpm_at_tick(c, y) >= BpmThreshold
    THEN c.beat.resolution \div 2
    ELSE c.beat.resolution \div 4

get_hold_step_at(y, c) ==
    IF bpm_at_tick(c, y) > BpmThreshold
    THEN c.beat.resolution \div 2
    ELSE c.beat.resolution \div 4

(***************************************************************************)
(* Score ticks.                                                            *)
(***************************************************************************)
Interval(y, l) == [y |-> y, l |-> l]

Chip(lane) == [kind |-> "Chip", lane |-> lane]
Hold(lane) == [kind |-> "Hold", lane |-> lane]
Laser(lane, pos) == [kind |-> "Laser", lane |-> lane, pos |-> pos]
Slam(lane, start, end) == [kind |-> "Slam", lane |-> lane, start |-> start, end |-> end]
PlacedScoreTick(y, tick) == [y |-> y, tick |-> tick]

\* A call's result: "ok" with the ticks returned; "panic" (the call unwinds and
\* returns nothing); "overrun" (a wrapped u32 loop bound: the loop keeps emitting
\* far beyond the modelled ticks; ticks holds what it emitted up to there);
\* "diverge" (a step of 0 inside the loop: y never advances).
Returned(ticks) == [outcome |-> "ok", ticks |-> ticks]
Panicked == [outcome |-> "panic", ticks |-> <<>>]
Overrun(ticks) == [outcome |-> "overrun", ticks |-> ticks]
Diverged(ticks) == [outcome |-> "diverge", ticks |-> ticks]

\* The loop of ticks_from_interval with `y += step` ahead of the step's refresh.
RECURSIVE hold_while_stale_step(_, _, _, _, _, _, _)
hold_while_stale_step(interval, lane, c, checks, y, step, res) ==
    LET end == interval.y + interval.l
        pushed == Append(res, PlacedScoreTick(y, Hold(lane)))
        next == get_hold_step_at(y, c)
        body == IF step = 0 THEN Diverged(pushed)
                ELSE hold_while_stale_step(interval, lane, c, checks, y + step, next, pushed)
    IN  IF end < step
        THEN IF checks THEN Panicked
             ELSE IF y > LastBpmTick(c) THEN Overrun(res)
             ELSE body
        ELSE IF y <= end - step THEN body ELSE Returned(res)

\* while y <= interval.y + interval.l - step { push; step = ...; y += step }
\* The bound is evaluated in u32 with the current step on every test.
RECURSIVE hold_while(_, _, _, _, _, _, _)
hold_while(interval, lane, c, checks, y, step, res) ==
    LET end == interval.y + interval.l
        pushed == Append(res, PlacedScoreTick(y, Hold(lane)))
        next == get_hold_step_at(y, c)
        body == IF next = 0 THEN Diverged(pushed)
                ELSE hold_while(interval, lane, c, checks, y + next, next, pushed)
    IN  IF end < step
        THEN IF checks THEN Panicked
             ELSE IF y > LastBpmTick(c) THEN Overrun(res)
             ELSE body
        ELSE IF y <= end - step THEN body ELSE Returned(res)

\* ticks_from_interval without the `y -= y % step` rounding.
ticks_from_interval_noround(interval, lane, c, checks) ==
    IF interval.l = 0
    THEN Returned(<<PlacedScoreTick(interval.y, Chip(lane))>>)
    ELSE LET step == get_hold_step_at(interval.y, c)
         IN  IF step = 0 THEN Panicked
             ELSE hold_while(interval, lane, c, checks, interval.y + step, step, <<>>)

\* ticks_from_interval whose chip branch places the tick one step late.
ticks_from_interval_latechip(interval, lane, c, checks) ==
    LET step == get_hold_step_at(interval.y, c)
        y1 == interval.y + step
    IN  IF interval.l = 0
        THEN Returned(<<PlacedScoreTick(y1, Chip(lane))>>)
        ELSE IF step = 0 THEN Panicked
        ELSE hold_while(interval, lane, c, checks, y1 - (y1 % step), step, <<>>)

ticks_from_interval(interval, lane, c, checks) ==
    IF interval.l = 0
    THEN Returned(<<PlacedScoreTick(interval.y, Chip(lane))>>)
    ELSE LET step == get_hold_step_at(interval.y, c)
             y1 == interval.y + step
         IN  IF step = 0 THEN Panicked
             ELSE hold_while(interval, lane, c, checks, y1 - (y1 % step), step, <<>>)

\* GraphSectionPoint { ry, v, vf } and LaserSection(y, points).
GraphSectionPoint(ry, v, vf) == [ry |-> ry, v |-> v, vf |-> vf]
LaserSection(y, v) == [y |-> y, v |-> v]

get_if_slam(point, lane, y) ==
    IF point.vf # NoValue
    THEN <<PlacedScoreTick(y + point.ry, Slam(lane, point.v, point.vf))>>
    ELSE <<>>

\* LaserSection::value_at: the curve at tick y, None (<<>>) outside the section; between
\* two points the line from the earlier point's value (its slam target when it
\* has one) to the later point's value, kept as the exact fraction <<num, den>>.
RECURSIVE value_at_from(_, _, _)
value_at_from(section, r, i) ==
    IF i >= Len(section.v) THEN <<>>
    ELSE LET s == section.v[i]
             e == section.v[i + 1]
             from == IF s.vf # NoValue THEN s.vf ELSE s.v
         IN  IF r >= s.ry /\ r <= e.ry
             THEN <<from * (e.ry - r) + e.v * (r - s.ry), e.ry - s.ry>>
             ELSE value_at_from(section, r, i + 1)

value_at(section, y) ==
    IF y < section.y THEN <<>> ELSE value_at_from(section, y - section.y, 1)

\* .unwrap_or_default()
laser_pos(section, y) ==
    LET p == value_at(section, y) IN IF p = <<>> THEN <<0, 1>> ELSE p

\* while y <= section.y + e.ry - step { if res.last().y == y { skip } else { push }; ... }
RECURSIVE laser_while(_, _, _, _, _, _, _, _)
laser_while(section, lane, c, checks, e, y, step, res) ==
    LET end == section.y + e.ry
        dup == Len(res) > 0 /\ res[Len(res)].y = y
        pushed == IF dup THEN res
                  ELSE Append(res, PlacedScoreTick(y, Laser(lane, laser_pos(section, y))))
        next == get_hold_step_at(y, c)
        body == IF next = 0 THEN Diverged(pushed)
                ELSE laser_while(section, lane, c, checks, e, y + next, next, pushed)
    IN  IF end < step
        THEN IF checks THEN Panicked
             ELSE IF y > LastBpmTick(c) THEN Overrun(res)
             ELSE body
        ELSE IF y <= end - step THEN body ELSE Returned(res)

\* The iteration with every segment's start stepped forward, not only the
\* first segment's and those that begin with a slam.
laser_segment_always_forward(section, lane, c, checks, i, res) ==
    LET s == section.v[i]
        e == section.v[i + 1]
        res1 == res \o get_if_slam(s, lane, section.y)
        y0 == section.y + s.ry
        step == get_hold_step_at(y0, c)
        y1 == y0 + step
    IN  IF step = 0 THEN Panicked
        ELSE laser_while(section, lane, c, checks, e, y1 - (y1 % step), step, res1)

\* The iteration that emits the slam of a segment's first point or the
\* segment's Laser ticks, never both.
laser_segment_slam_only(section, lane, c, checks, i, res) ==
    LET s == section.v[i]
        e == section.v[i + 1]
        y0 == section.y + s.ry
        step == get_hold_step_at(y0, c)
        y1 == IF i = 1 THEN y0 + step ELSE y0
    IN  IF step = 0 THEN Panicked
        ELSE IF s.vf # NoValue THEN Returned(res \o get_if_slam(s, lane, section.y))
        ELSE laser_while(section, lane, c, checks, e, y1 - (y1 % step), step, res)

\* One iteration of `for se in section.v.windows(2)`, for the pair (v[i], v[i+1]).
laser_segment(section, lane, c, checks, i, res) ==
    LET s == section.v[i]
        e == section.v[i + 1]
        res1 == res \o get_if_slam(s, lane, section.y)
        y0 == section.y + s.ry
        step == get_hold_step_at(y0, c)
        y1 == IF s.vf # NoValue \/ i = 1 THEN y0 + step ELSE y0
    IN  IF step = 0 THEN Panicked
        ELSE laser_while(section, lane, c, checks, e, y1 - (y1 % step), step, res1)

RECURSIVE laser_segments(_, _, _, _, _, _)
laser_segments(section, lane, c, checks, i, res) ==
    IF i >= Len(section.v) THEN Returned(res)
    ELSE LET r == laser_segment(section, lane, c, checks, i, res)
         IN  IF r.outcome # "ok" THEN r
             ELSE laser_segments(section, lane, c, checks, i + 1, r.ticks)

ticks_from_laser_section(section, lane, c, checks) ==
    LET r == laser_segments(section, lane, c, checks, 1, <<>>)
    IN  IF r.outcome # "ok" \/ Len(section.v) = 0 THEN r
        ELSE Returned(r.ticks \o get_if_slam(section.v[Len(section.v)], lane, section.y))

(***************************************************************************)
(* Timeline merger.                                                        *)
(***************************************************************************)
\* The first outcome that is not "ok" ends the whole computation.
Then(r, rest) ==
    IF r.outcome # "ok" THEN r
    ELSE IF rest.outcome # "ok" THEN [rest EXCEPT !.ticks = r.ticks \o rest.ticks]
    ELSE Returned(r.ticks \o rest.ticks)

\* l.iter().map(|i| ticks_from_interval(i, lane, chart)) ... flatten
RECURSIVE lane_interval_ticks(_, _, _, _, _)
lane_interval_ticks(notes, i, lane, c, checks) ==
    IF i > Len(notes) THEN Returned(<<>>)
    ELSE LET r == ticks_from_interval(notes[i], lane, c, checks)
         IN  IF r.outcome # "ok" THEN r
             ELSE Then(r, lane_interval_ticks(notes, i + 1, lane, c, checks))

RECURSIVE lane_laser_ticks(_, _, _, _, _)
lane_laser_ticks(sections, i, lane, c, checks) ==
    IF i > Len(sections) THEN Returned(<<>>)
    ELSE LET r == ticks_from_laser_section(sections[i], lane, c, checks)
         IN  IF r.outcome # "ok" THEN r
             ELSE Then(r, lane_laser_ticks(sections, i + 1, lane, c, checks))

\* lanes.iter().enumerate(): the k-th lane of the array carries lane index k - 1.
RECURSIVE interval_lanes_ticks(_, _, _, _)
interval_lanes_ticks(lanes, k, c, checks) ==
    IF k > Len(lanes) THEN Returned(<<>>)
    ELSE LET r == lane_interval_ticks(lanes[k], 1, k - 1, c, checks)
         IN  IF r.outcome # "ok" THEN r
             ELSE Then(r, interval_lanes_ticks(lanes, k + 1, c, checks))

RECURSIVE laser_lanes_ticks(_, _, _, _)
laser_lanes_ticks(lanes, k, c, checks) ==
    IF k > Len(lanes) THEN Returned(<<>>)
    ELSE LET r == lane_laser_ticks(lanes[k], 1, k - 1, c, checks)
         IN  IF r.outcome # "ok" THEN r
             ELSE Then(r, laser_lanes_ticks(lanes, k + 1, c, checks))

\* res.sort_by(|pa, pb| pa.y.cmp(&pb.y)): a stable sort. The tick at index i
\* moves behind every tick of a smaller y and every earlier tick of the same y.
sorted_index(ticks, i) ==
    1 + Cardinality({j \in 1 .. Len(ticks) :
                        ticks[j].y < ticks[i].y \/ (ticks[j].y = ticks[i].y /\ j < i)})

\* A sort by y that puts ticks of the same y in reverse order.
sort_by_y_ties_reversed(ticks) ==
    [k \in 1 .. Len(ticks) |->
        ticks[CHOOSE i \in 1 .. Len(ticks) :
                 k = 1 + Cardinality({j \in 1 .. Len(ticks) :
                                         \/ ticks[j].y < ticks[i].y
                                         \/ (ticks[j].y = ticks[i].y /\ j > i)})]]

sort_by_y(ticks) ==
    [k \in 1 .. Len(ticks) |->
        ticks[CHOOSE i \in 1 .. Len(ticks) : sorted_index(ticks, i) = k]]

\* The three res.append(..) of generate_score_ticks, before the sort.
score_ticks_unsorted(c, checks) ==
    Then(interval_lanes_ticks(c.note.bt, 1, c, checks),
         Then(interval_lanes_ticks(c.note.fx, 1, c, checks),
              laser_lanes_ticks(c.note.laser, 1, c, checks)))

\* generate_score_ticks without its final sort.
generate_score_ticks_nosort(c, checks) == score_ticks_unsorted(c, checks)

\* generate_score_ticks without the FX lanes' res.append(..).
generate_score_ticks_without_fx(c, checks) ==
    CHOOSE sorted \in {IF r.outcome # "ok" THEN r ELSE Returned(sort_by_y(r.ticks)) :
                          r \in {Then(interval_lanes_ticks(c.note.bt, 1, c, checks),
                                      laser_lanes_ticks(c.note.laser, 1, c, checks))}} : TRUE

\* (The concatenation is bound as a value, so that it is computed once.)
generate_score_ticks(c, checks) ==
    CHOOSE sorted \in {IF r.outcome # "ok" THEN r ELSE Returned(sort_by_y(r.ticks)) :
                          r \in {score_ticks_unsorted(c, checks)}} : TRUE

(***************************************************************************)
(* ScoreTicker: summary and combo lookup on a compiled timeline.           *)
(***************************************************************************)
ScoreTickSummary(chip_count, hold_count, laser_count, slam_count, total) ==
    [chip_count |-> chip_count, hold_count |-> hold_count,
     laser_count |-> laser_count, slam_count |-> slam_count, total |-> total]

\* One turn of the loop of summary with Slam ticks counted as Laser ticks.
count_tick_slam_as_laser(res, t) ==
    LET counted == [res EXCEPT !.total = @ + 1]
    IN  IF t.tick.kind \in {"Laser", "Slam"} THEN [counted EXCEPT !.laser_count = @ + 1]
        ELSE IF t.tick.kind = "Chip" THEN [counted EXCEPT !.chip_count = @ + 1]
        ELSE [counted EXCEPT !.hold_count = @ + 1]

\* One turn of the loop of summary: res.total += 1, then the variant's count.
count_tick(res, t) ==
    LET counted == [res EXCEPT !.total = @ + 1]
    IN  IF t.tick.kind = "Laser" THEN [counted EXCEPT !.laser_count = @ + 1]
        ELSE IF t.tick.kind = "Slam" THEN [counted EXCEPT !.slam_count = @ + 1]
        ELSE IF t.tick.kind = "Chip" THEN [counted EXCEPT !.chip_count = @ + 1]
        ELSE [counted EXCEPT !.hold_count = @ + 1]

RECURSIVE summary_from(_, _, _)
summary_from(self, i, res) ==
    IF i > Len(self) THEN res ELSE summary_from(self, i + 1, count_tick(res, self[i]))

summary(self) == summary_from(self, 1, ScoreTickSummary(0, 0, 0, 0, 0))

\* slice::binary_search_by(|f| f.y.cmp(&y)) on a sorted slice: Ok(index) of a
\* tick at y, any one of them when several match (which one is left open by
\* the library and differs between its versions), else Err(insertion index).
\* Indices count from 0.
binary_search_by(self, y) ==
    LET matches == {i \in 1 .. Len(self) : self[i].y = y}
    IN  IF matches # {} THEN {[ok |-> TRUE, index |-> i - 1] : i \in matches}
        ELSE {[ok |-> FALSE, index |-> Cardinality({i \in 1 .. Len(self) : self[i].y < y})]}

\* get_combo_at that answers 0 where no tick lies at y.
get_combo_at_exact(self, y) ==
    {IF found.ok THEN found.index + 1 ELSE 0 : found \in binary_search_by(self, y)}

\* The values get_combo_at(y) can return: Ok(c) => c + 1, Err(c) => c.
get_combo_at(self, y) ==
    {IF found.ok THEN found.index + 1 ELSE found.index : found \in binary_search_by(self, y)}

(***************************************************************************)
(* Audio effects (src/kson/src/effects.rs).                                *)
(***************************************************************************)
NoAudioEffect == [none |-> TRUE]   \* chart.audio.audio_effect == None
NoParams == [none |-> TRUE]        \* a long event without override params

\* Raw parameter strings are numbered; EffectParameter::derive(raw) yields the
\* parameter parsed from the raw string.
ParsedParam(raw) == [parsed |-> raw]
DefaultParam == [parsed |-> 0]

BitCrusher(reduction, mix) ==
    [type |-> "BitCrusher", params |-> [reduction |-> reduction, mix |-> mix]]
Gate(wave_length, rate, mix) ==
    [type |-> "Gate", params |-> [wave_length |-> wave_length, rate |-> rate, mix |-> mix]]
AudioSwap(v) == [type |-> "AudioSwap", v |-> v]

\* impl Effect for String: derive returns the raw value whatever the key is,
\* and param_list is empty.
derive_String(self, key, param) == param

\* The parameter names of a variant.
param_list(effect) == IF effect.type = "AudioSwap" THEN {} ELSE DOMAIN effect.params

\* Effect::derive of AudioEffect: the variant's derive applied to its payload;
\* a struct overrides the field named by key and ignores any other key.
derive(effect, key, param) ==
    IF effect.type = "AudioSwap" THEN AudioSwap(derive_String(effect.v, key, param))
    ELSE IF key \in DOMAIN effect.params
    THEN [effect EXCEPT !.params[key] = ParsedParam(param)]
    ELSE effect

\* .fold(effect, |e, (key, param)| e.derive(key, param))
RECURSIVE fold_derive(_, _, _)
fold_derive(effect, items, i) ==
    IF i > Len(items) THEN effect
    ELSE fold_derive(derive(effect, items[i].key, items[i].param), items, i + 1)

\* Iterator::flatten of a sequence of sequences.
RECURSIVE flatten_from(_, _)
flatten_from(seqs, i) ==
    IF i > Len(seqs) THEN <<>> ELSE seqs[i] \o flatten_from(seqs, i + 1)

flatten(seqs) == flatten_from(seqs, 1)

\* .take_while(|(tick, ..)| tick <= at): the longest prefix of ticks <= at.
take_while_upto(items, at) ==
    LET late == {i \in 1 .. Len(items) : items[i].tick > at}
    IN  IF late = {} THEN items
        ELSE SubSeq(items, 1, (CHOOSE i \in late : \A j \in late : i <= j) - 1)

\* take_while with the strict test tick < at.
take_while_before(items, at) ==
    LET late == {i \in 1 .. Len(items) : items[i].tick >= at}
    IN  IF late = {} THEN items
        ELSE SubSeq(items, 1, (CHOOSE i \in late : \A j \in late : i <= j) - 1)

\* HashMap::iter(): the keys of map m, in the order the hash order puts them.
iter_keys(m, order) == SelectSeq(order, LAMBDA k : k \in DOMAIN m)

EffectInterval(interval, effect, track) ==
    [interval |-> interval, effect |-> effect, track |-> track, dom |-> TRUE]
TrackFX(side) == [kind |-> "FX", side |-> side]
TrackLaser(side) == [kind |-> "Laser", side |-> side]

\* FX pass: the scheduled changes of one effect, each key's list cut by
\* take_while at the event's tick, keys in map order.
fx_scheduled_strict(params_map, key_order, at) ==
    LET keys == iter_keys(params_map, key_order)
    IN  flatten([k \in 1 .. Len(keys) |->
            LET taken == take_while_before(params_map[keys[k]], at)
            IN  [i \in 1 .. Len(taken) |->
                    [key |-> keys[k], tick |-> taken[i].tick, param |-> taken[i].param]]])

fx_scheduled(params_map, key_order, at) ==
    LET keys == iter_keys(params_map, key_order)
    IN  flatten([k \in 1 .. Len(keys) |->
            LET taken == take_while_upto(params_map[keys[k]], at)
            IN  [i \in 1 .. Len(taken) |->
                    [key |-> keys[k], tick |-> taken[i].tick, param |-> taken[i].param]]])

\* The resolved effect with the event's override folded before the schedule.
fx_event_effect_override_first(fx, name, event, key_order) ==
    LET root == fx.def[name]
        long_keys == iter_keys(event.params, key_order)
        overridden ==
            IF event.params = NoParams THEN root
            ELSE fold_derive(root,
                             [k \in 1 .. Len(long_keys) |->
                                 [key |-> long_keys[k], param |-> event.params[long_keys[k]]]], 1)
    IN  IF name \in DOMAIN fx.param_change
        THEN fold_derive(overridden, fx_scheduled(fx.param_change[name], key_order, event.tick), 1)
        ELSE overridden

\* The resolved effect of one matched long event.
fx_event_effect(fx, name, event, key_order) ==
    LET root == fx.def[name]
        scheduled ==
            IF name \in DOMAIN fx.param_change
            THEN fold_derive(root, fx_scheduled(fx.param_change[name], key_order, event.tick), 1)
            ELSE root
        long_keys == iter_keys(event.params, key_order)
    IN  IF event.params = NoParams THEN scheduled
        ELSE fold_derive(scheduled,
                         [k \in 1 .. Len(long_keys) |->
                             [key |-> long_keys[k], param |-> event.params[long_keys[k]]]], 1)

\* The FX side's intervals when an event without a note at its tick takes the
\* note at the binary search's insertion index (the last note when past the end).
fx_side_intervals_nearest(c, name, side, key_order) ==
    LET events == c.audio_effect.fx.long_event[name][side]
        lane == c.note.fx[side]
    IN  flatten([e \in 1 .. Len(events) |->
            LET found == {i \in 1 .. Len(lane) : lane[i].y = events[e].tick}
                before == Cardinality({i \in 1 .. Len(lane) : lane[i].y < events[e].tick})
                index == IF found # {} THEN CHOOSE i \in found : TRUE
                         ELSE IF before < Len(lane) THEN before + 1 ELSE Len(lane)
            IN  IF lane = <<>> THEN <<>>
                ELSE <<EffectInterval(lane[index],
                                      fx_event_effect(c.audio_effect.fx, name, events[e], key_order),
                                      TrackFX(side))>>])

\* for event in &long_event[fx_side]: binary search of the FX lane for a note
\* that starts at the event's tick; an event without one is skipped.
fx_side_intervals(c, name, side, key_order) ==
    LET events == c.audio_effect.fx.long_event[name][side]
        lane == c.note.fx[side]
    IN  flatten([e \in 1 .. Len(events) |->
            LET found == {i \in 1 .. Len(lane) : lane[i].y = events[e].tick}
            IN  IF found = {} THEN <<>>
                ELSE <<EffectInterval(lane[CHOOSE i \in found : TRUE],
                                      fx_event_effect(c.audio_effect.fx, name, events[e], key_order),
                                      TrackFX(side))>>])

fx_pass(c, orders) ==
    LET names == iter_keys(c.audio_effect.fx.def, orders.names)
    IN  flatten([n \in 1 .. Len(names) |->
            IF names[n] \in DOMAIN c.audio_effect.fx.long_event
            THEN fx_side_intervals(c, names[n], 1, orders.keys)
                     \o fx_side_intervals(c, names[n], 2, orders.keys)
            ELSE <<>>])

\* Laser pass: the pulse events of all effects, flattened in map order, cut by
\* take_while at the section start; max_by_key keeps the last greatest tick.
laser_pulse_at(laser, name_order, at) ==
    LET names == iter_keys(laser.pulse_event, name_order)
        pulses == flatten([n \in 1 .. Len(names) |->
                      [k \in 1 .. Len(laser.pulse_event[names[n]]) |->
                          [name |-> names[n], tick |-> laser.pulse_event[names[n]][k]]]])
        taken == take_while_upto(pulses, at)
        last_max == CHOOSE i \in 1 .. Len(taken) :
                        /\ \A j \in 1 .. Len(taken) : taken[j].tick <= taken[i].tick
                        /\ \A j \in (i + 1) .. Len(taken) : taken[j].tick < taken[i].tick
    IN  IF Len(taken) = 0 THEN <<>> ELSE <<taken[last_max]>>

\* The changes of all keys, flattened in map order, without the take_while.
laser_scheduled_uncut(params_map, key_order, at) ==
    LET keys == iter_keys(params_map, key_order)
    IN  flatten([k \in 1 .. Len(keys) |->
            [i \in 1 .. Len(params_map[keys[k]]) |->
                [key |-> keys[k], tick |-> params_map[keys[k]][i].tick,
                 param |-> params_map[keys[k]][i].param]]])

\* The changes of all keys, flattened in map order, then cut by take_while.
laser_scheduled(params_map, key_order, at) ==
    LET keys == iter_keys(params_map, key_order)
    IN  take_while_upto(
            flatten([k \in 1 .. Len(keys) |->
                [i \in 1 .. Len(params_map[keys[k]]) |->
                    [key |-> keys[k], tick |-> params_map[keys[k]][i].tick,
                     param |-> params_map[keys[k]][i].param]]]), at)

\* The section's interval tagged with the FX track of the side.
laser_section_interval_on_fx_track(c, side, section, orders) ==
    LET laser == c.audio_effect.laser
        interval == Interval(section.y,
                             IF Len(section.v) = 0 THEN 0 ELSE section.v[Len(section.v)].ry)
        pulse == laser_pulse_at(laser, orders.names, interval.y)
        effect_key == pulse[1].name
        effect == laser.def[effect_key]
    IN  IF pulse = <<>> THEN <<>>
        ELSE IF effect_key \notin DOMAIN laser.def THEN <<>>
        ELSE <<EffectInterval(
                   interval,
                   IF effect_key \in DOMAIN laser.param_change
                   THEN fold_derive(effect,
                            laser_scheduled(laser.param_change[effect_key], orders.keys, interval.y), 1)
                   ELSE effect,
                   TrackFX(side))>>

laser_section_interval(c, side, section, orders) ==
    LET laser == c.audio_effect.laser
        interval == Interval(section.y,
                             IF Len(section.v) = 0 THEN 0 ELSE section.v[Len(section.v)].ry)
        pulse == laser_pulse_at(laser, orders.names, interval.y)
        effect_key == pulse[1].name
        effect == laser.def[effect_key]
    IN  IF pulse = <<>> THEN <<>>
        ELSE IF effect_key \notin DOMAIN laser.def THEN <<>>
        ELSE <<EffectInterval(
                   interval,
                   IF effect_key \in DOMAIN laser.param_change
                   THEN fold_derive(effect,
                            laser_scheduled(laser.param_change[effect_key], orders.keys, interval.y), 1)
                   ELSE effect,
                   TrackLaser(side))>>

laser_pass(c, orders) ==
    flatten([side \in 1 .. 2 |->
        flatten([s \in 1 .. Len(c.note.laser[side]) |->
            laser_section_interval(c, side, c.note.laser[side][s], orders)])])

\* result.sort_by_key(|e| e.interval.y): stable.
sorted_interval_index(result, i) ==
    1 + Cardinality({j \in 1 .. Len(result) :
                        \/ result[j].interval.y < result[i].interval.y
                        \/ (result[j].interval.y = result[i].interval.y /\ j < i)})

\* get_effect_tracks without its final sort.
sort_by_interval_y_skipped(result) == result

sort_by_interval_y(result) ==
    [k \in 1 .. Len(result) |->
        result[CHOOSE i \in 1 .. Len(result) : sorted_interval_index(result, i) = k]]

get_effect_tracks(c, orders) ==
    IF c.audio_effect = NoAudioEffect THEN <<>>
    ELSE CHOOSE sorted \in {sort_by_interval_y(result) :
                               result \in {fx_pass(c, orders) \o laser_pass(c, orders)}} : TRUE

(***************************************************************************)
(* Specification of the per-call operations.                               *)
(***************************************************************************)
Intervals == {Interval(y, l) : y \in Ticks, l \in Lens}
ButtonLanes == 0 .. 3
LaserLanes == 0 .. 1

\* Control points: ry strictly increasing from 0. The curve values do not steer
\* the tick positions, so the i-th point carries v = i mod 3 (in thirds of the
\* lane width) and, when it slams, the target (v + 2) mod 3: the values of a
\* point, of its slam target and of the next point all differ.
PointsAt(i, ry) ==
    {GraphSectionPoint(ry, i % 3, vf) : vf \in {NoValue, (i + 2) % 3}}

RECURSIVE PointLists(_, _)
PointLists(i, last) ==
    IF i > MaxPoints THEN {<<>>}
    ELSE {<<>>} \cup UNION {{<<p>> \o rest : p \in PointsAt(i, ry),
                                               rest \in PointLists(i + 1, ry)} :
                                ry \in (last + 1) .. MaxRy}

SectionPoints == {<<p>> \o rest : p \in PointsAt(1, 0), rest \in PointLists(2, 0)}

LaserSections == {LaserSection(y, v) : y \in 0 .. MaxSectionTick, v \in SectionPoints}

\* BPM maps: a first entry at tick 0 and at most one later change.
BpmMaps ==
    {<<[y |-> 0, v |-> a]>> : a \in Bpms}
    \cup {m \in {<<[y |-> 0, v |-> a], [y |-> t, v |-> b]>> :
                      a \in Bpms, b \in Bpms, t \in Ticks \ {0}} : m[1].v # m[2].v}

EmptyNote == [bt |-> <<<<>>, <<>>, <<>>, <<>>>>, fx |-> <<<<>>, <<>>>>,
              laser |-> <<<<>>, <<>>>>]

TimingCharts ==
    {[beat |-> [resolution |-> r, bpm |-> m], note |-> EmptyNote, audio_effect |-> NoAudioEffect] :
         r \in Resolutions, m \in BpmMaps}

NoCall == [fn |-> "none"]

Init ==
    /\ chart \in TimingCharts
    /\ overflow_checks \in BOOLEAN
    /\ score_ticks = <<>>
    /\ call = NoCall
    /\ ret = Returned(<<>>)

GetHoldStepAt ==
    /\ call.fn = "none"
    /\ \E y \in Ticks :
        /\ call' = [fn |-> "get_hold_step_at", y |-> y]
        /\ ret' = [outcome |-> "ok", value |-> get_hold_step_at(y, chart)]
        /\ UNCHANGED <<chart, overflow_checks, score_ticks>>

TicksFromInterval ==
    /\ call.fn = "none"
    /\ \E interval \in Intervals, lane \in ButtonLanes :
        /\ call' = [fn |-> "ticks_from_interval", interval |-> interval, lane |-> lane]
        /\ ret' = ticks_from_interval(interval, lane, chart, overflow_checks)
        /\ UNCHANGED <<chart, overflow_checks, score_ticks>>

TicksFromLaserSection ==
    /\ call.fn = "none"
    /\ \E section \in LaserSections, lane \in LaserLanes :
        /\ call' = [fn |-> "ticks_from_laser_section", section |-> section, lane |-> lane]
        /\ ret' = ticks_from_laser_section(section, lane, chart, overflow_checks)
        /\ UNCHANGED <<chart, overflow_checks, score_ticks>>

Next == GetHoldStepAt \/ TicksFromInterval \/ TicksFromLaserSection

Spec == Init /\ [][Next]_vars

(***************************************************************************)
(* The same operations on charts of a tick resolution below 4, where        *)
(* resolution / 4 is 0.                                                     *)
(***************************************************************************)
LowResolutions == {2, 3}

LowResolutionCharts ==
    {[beat |-> [resolution |-> r, bpm |-> m], note |-> EmptyNote, audio_effect |-> NoAudioEffect] :
         r \in LowResolutions, m \in BpmMaps}

InitLowResolution ==
    /\ chart \in LowResolutionCharts
    /\ overflow_checks \in BOOLEAN
    /\ score_ticks = <<>>
    /\ call = NoCall
    /\ ret = Returned(<<>>)

SpecLowResolution == InitLowResolution /\ [][Next]_vars

(***************************************************************************)
(* Specification of the compilation of whole charts.                       *)
(***************************************************************************)
FxLanes == 0 .. 1
NoteTicks == 0 .. MaxNoteTick

\* What a chart may hold: chips and holds on the button and FX lanes, laser
\* sections (a lone slam, a plain segment, a slam at both ends) on the laser lanes.
NoteEntries ==
    {[kind |-> k, lane |-> n, item |-> Interval(y, l)] :
         k \in {"bt"}, n \in ButtonLanes, y \in NoteTicks, l \in {0, 3}}
    \cup {[kind |-> k, lane |-> n, item |-> Interval(y, l)] :
         k \in {"fx"}, n \in FxLanes, y \in NoteTicks, l \in {0, 3}}
    \cup {[kind |-> k, lane |-> n, item |-> LaserSection(y, v)] :
         k \in {"laser"}, n \in LaserLanes, y \in NoteTicks,
         v \in {<<GraphSectionPoint(0, 0, 2)>>,
                <<GraphSectionPoint(0, 0, NoValue), GraphSectionPoint(3, 1, NoValue)>>,
                <<GraphSectionPoint(0, 0, 2), GraphSectionPoint(2, 1, 0)>>}}

\* The sets of at most n entries.
RECURSIVE EntrySets(_)
EntrySets(n) ==
    IF n = 0 THEN {{}}
    ELSE LET smaller == EntrySets(n - 1)
         IN  smaller \cup {S \cup {e} : S \in smaller, e \in NoteEntries}

\* At most MaxNotes entries, no two of one lane at the same tick.
NoteSets ==
    {S \in EntrySets(MaxNotes) :
        \A a \in S, b \in S :
            a.kind = b.kind /\ a.lane = b.lane /\ a.item.y = b.item.y => a = b}

\* A lane's items in chart order (ascending start tick).
RECURSIVE InTickOrder(_)
InTickOrder(items) ==
    IF items = {} THEN <<>>
    ELSE LET first == CHOOSE a \in items : \A b \in items : a.y <= b.y
         IN  <<first>> \o InTickOrder(items \ {first})

LaneOf(S, kind, lane) == InTickOrder({e.item : e \in {x \in S : x.kind = kind /\ x.lane = lane}})

NoteOf(S) ==
    [bt |-> <<LaneOf(S, "bt", 0), LaneOf(S, "bt", 1), LaneOf(S, "bt", 2), LaneOf(S, "bt", 3)>>,
     fx |-> <<LaneOf(S, "fx", 0), LaneOf(S, "fx", 1)>>,
     laser |-> <<LaneOf(S, "laser", 0), LaneOf(S, "laser", 1)>>]

CompileCharts ==
    {[beat |-> [resolution |-> 4, bpm |-> <<[y |-> 0, v |-> b]>>], note |-> NoteOf(S),
      audio_effect |-> NoAudioEffect] :
         b \in Bpms, S \in NoteSets}

InitCompile ==
    /\ chart \in CompileCharts
    /\ overflow_checks \in BOOLEAN
    /\ score_ticks = <<>>
    /\ call = NoCall
    /\ ret = Returned(<<>>)

GenerateScoreTicks ==
    /\ call.fn = "none"
    /\ call' = [fn |-> "generate_score_ticks"]
    /\ ret' = generate_score_ticks(chart, overflow_checks)
    /\ UNCHANGED <<chart, overflow_checks, score_ticks>>

NextCompile == GenerateScoreTicks

SpecCompile == InitCompile /\ [][NextCompile]_vars

(***************************************************************************)
(* Specification of the ScoreTicker operations: a sorted timeline, as      *)
(* generate_score_ticks returns it, then one summary or combo lookup.      *)
(***************************************************************************)
TickVariants == {Chip(0), Hold(0), Laser(0, <<0, 1>>), Slam(0, 0, 1)}
ComboTicks == 0 .. MaxComboTick

\* The timelines of exactly n ticks, sorted by y.
RECURSIVE TimelinesOfLen(_)
TimelinesOfLen(n) ==
    IF n = 0 THEN {<<>>}
    ELSE UNION {{Append(t, PlacedScoreTick(y, v)) :
                    y \in {z \in ComboTicks : n = 1 \/ t[n - 1].y <= z}, v \in TickVariants} :
                t \in TimelinesOfLen(n - 1)}

Timelines == UNION {TimelinesOfLen(n) : n \in 0 .. MaxTimeline}

\* (The ScoreTicker operations read no chart; one without notes stands by.)
EmptyChart ==
    [beat |-> [resolution |-> 4, bpm |-> <<[y |-> 0, v |-> 255]>>],
     note |-> EmptyNote, audio_effect |-> NoAudioEffect]

InitTicker ==
    /\ chart = EmptyChart
    /\ overflow_checks = FALSE
    /\ score_ticks \in Timelines
    /\ call = NoCall
    /\ ret = Returned(<<>>)

Summary ==
    /\ call.fn = "none"
    /\ call' = [fn |-> "summary"]
    /\ ret' = [outcome |-> "ok", value |-> summary(score_ticks)]
    /\ UNCHANGED <<chart, overflow_checks, score_ticks>>

\* A lookup at any position up to one past the largest of a timeline.
GetComboAt ==
    /\ call.fn = "none"
    /\ \E y \in 0 .. MaxComboTick + 1 : \E combo \in get_combo_at(score_ticks, y) :
        /\ call' = [fn |-> "get_combo_at", y |-> y]
        /\ ret' = [outcome |-> "ok", value |-> combo]
        /\ UNCHANGED <<chart, overflow_checks, score_ticks>>

NextTicker == Summary \/ GetComboAt

SpecTicker == InitTicker /\ [][NextTicker]_vars

(***************************************************************************)
(* Specification of the effect timeline builder.                           *)
(***************************************************************************)
EffectNames == <<"bitcrusher", "gate">>
ParamKeys == <<"reduction", "mix">>
EffectTicks == 0 .. MaxEffectTick

\* The permutations of a two-element sequence: the orders a HashMap may iterate in.
Orders(s) == {s, <<s[2], s[1]>>}

\* The sets of at most n elements of E.
RECURSIVE SetsUpTo(_, _)
SetsUpTo(E, n) ==
    IF n = 0 THEN {{}}
    ELSE LET smaller == SetsUpTo(E, n - 1)
         IN  smaller \cup {S \cup {e} : S \in smaller, e \in E}

\* The ticks of a set, ascending.
RECURSIVE Ascending(_)
Ascending(ticks) ==
    IF ticks = {} THEN <<>>
    ELSE LET first == CHOOSE a \in ticks : \A b \in ticks : a <= b
         IN  <<first>> \o Ascending(ticks \ {first})

\* A parameter-change schedule from a set of (key, tick) places: each key's
\* list ascending by tick; the change at tick t carries the raw string t + 1.
ChangePlaces == {[key |-> k, tick |-> t] : k \in {"reduction", "mix"}, t \in EffectTicks}

ChangeList(P, key) ==
    LET ticks == Ascending({p.tick : p \in {q \in P : q.key = key}})
    IN  [i \in 1 .. Len(ticks) |-> [tick |-> ticks[i], param |-> ticks[i] + 1]]

ScheduleOf(P) == [reduction |-> ChangeList(P, "reduction"), mix |-> ChangeList(P, "mix")]

Schedules == {ScheduleOf(P) : P \in SetsUpTo(ChangePlaces, MaxChanges)}

\* Pulse events from a set of (name, tick) places: only effects that have
\* events are keys of the map.
PulsePlaces == {[name |-> n, tick |-> t] : n \in {"bitcrusher", "gate"}, t \in EffectTicks}

PulseMapOf(P) ==
    [n \in {p.name : p \in P} |-> Ascending({p.tick : p \in {q \in P : q.name = n}})]

PulseMaps == {PulseMapOf(P) : P \in SetsUpTo(PulsePlaces, MaxPulses)}

EffectDefs ==
    [bitcrusher |-> BitCrusher(DefaultParam, DefaultParam),
     gate |-> Gate(DefaultParam, DefaultParam, DefaultParam)]

NoFx == [def |-> EffectDefs, param_change |-> <<>>, long_event |-> <<>>]
NoLaser == [def |-> EffectDefs, param_change |-> <<>>, pulse_event |-> <<>>]
EffectBeat == [resolution |-> 4, bpm |-> <<[y |-> 0, v |-> 255]>>]

\* Charts with one FX note on the left lane and one long event of the
\* bitcrusher at the same tick, with or without override params.
FxEffectCharts ==
    {[beat |-> EffectBeat,
      note |-> [EmptyNote EXCEPT !.fx = <<<<Interval(t, 2)>>, <<>>>>],
      audio_effect |->
          [fx |-> [def |-> EffectDefs,
                   param_change |-> [bitcrusher |-> sch],
                   long_event |-> [bitcrusher |-> <<<<[tick |-> t, params |-> ov]>>, <<>>>>]],
           laser |-> NoLaser]] :
        t \in EffectTicks, sch \in Schedules, ov \in {NoParams, [mix |-> 9]}}

\* Charts with one laser section on the left lane, pulse events of both
\* effects, and a parameter-change schedule of the bitcrusher.
LaserEffectCharts ==
    {[beat |-> EffectBeat,
      note |-> [EmptyNote EXCEPT !.laser =
                   <<<<LaserSection(y, <<GraphSectionPoint(0, 0, NoValue),
                                         GraphSectionPoint(2, 1, NoValue)>>)>>, <<>>>>],
      audio_effect |->
          [fx |-> NoFx,
           laser |-> [def |-> EffectDefs,
                      param_change |-> [bitcrusher |-> sch],
                      pulse_event |-> pe]]] :
        y \in EffectTicks, sch \in Schedules, pe \in PulseMaps}

\* Charts with FX notes and long events of both effects on both sides, some
\* events without a note at their tick, the gate with or without a definition,
\* and at most one laser section on the right lane whose effect is the
\* bitcrusher; no scheduled changes.
EventLists(ticks) ==
    {[i \in 1 .. Len(seq) |-> [tick |-> seq[i], params |-> NoParams]] :
        seq \in {Ascending(S) : S \in SetsUpTo(ticks, 2)}}

NoteLists(ticks) ==
    {[i \in 1 .. Len(seq) |-> Interval(seq[i], 1)] :
        seq \in {Ascending(S) : S \in SUBSET ticks}}

MixedEffectCharts ==
    {[beat |-> EffectBeat,
      note |-> [EmptyNote EXCEPT !.fx = <<left, right>>, !.laser = <<<<>>, sections>>],
      audio_effect |->
          [fx |-> [def |-> defs,
                   param_change |-> <<>>,
                   long_event |-> [bitcrusher |-> <<crush, <<>>>>, gate |-> <<<<>>, gated>>]],
           laser |-> [def |-> EffectDefs,
                      param_change |-> [bitcrusher |-> ScheduleOf({})],
                      pulse_event |-> [bitcrusher |-> <<0>>]]]] :
        defs \in {EffectDefs, [bitcrusher |-> EffectDefs.bitcrusher]},
        left \in NoteLists({0, 2}), right \in NoteLists({1}),
        crush \in EventLists(EffectTicks), gated \in EventLists({1, 2}),
        sections \in {<<>>} \cup
            {<<LaserSection(y, <<GraphSectionPoint(0, 0, NoValue),
                                 GraphSectionPoint(2, 1, NoValue)>>)>> : y \in {0, MaxEffectTick}}}

InitEffects ==
    /\ chart \in FxEffectCharts \cup LaserEffectCharts \cup MixedEffectCharts
    /\ overflow_checks = FALSE
    /\ score_ticks = <<>>
    /\ call = NoCall
    /\ ret = Returned(<<>>)

GetEffectTracks ==
    /\ call.fn = "none"
    /\ \E names \in Orders(EffectNames), keys \in Orders(ParamKeys) :
        /\ call' = [fn |-> "get_effect_tracks", orders |-> [names |-> names, keys |-> keys]]
        /\ ret' = get_effect_tracks(chart, [names |-> names, keys |-> keys])
        /\ UNCHANGED <<chart, overflow_checks, score_ticks>>

NextEffects == GetEffectTracks

SpecEffects == InitEffects /\ [][NextEffects]_vars

(***************************************************************************)
(* Specification of Effect::derive: one derive on a snapshot of one of     *)
(* three variants, with a key that names a parameter or does not.          *)
(***************************************************************************)
RawParams == 0 .. MaxRaw
Params == {DefaultParam} \cup {ParsedParam(raw) : raw \in RawParams}

Snapshots ==
    {BitCrusher(r, m) : r \in Params, m \in Params}
        \cup {Gate(w, r, m) : w \in Params, r \in Params, m \in Params}
        \cup {AudioSwap(v) : v \in RawParams}

DeriveKeys == {"reduction", "mix", "wave_length", "rate", "unknown"}

InitDerive ==
    /\ chart = EmptyChart
    /\ overflow_checks = FALSE
    /\ score_ticks = <<>>
    /\ call = NoCall
    /\ ret = Returned(<<>>)

Derive ==
    /\ call.fn = "none"
    /\ \E effect \in Snapshots, key \in DeriveKeys, param \in RawParams :
        /\ call' = [fn |-> "derive", effect |-> effect, key |-> key, param |-> param]
        /\ ret' = [outcome |-> "ok", value |-> derive(effect, key, param)]
        /\ UNCHANGED <<chart, overflow_checks, score_ticks>>

NextDerive == Derive

SpecDerive == InitDerive /\ [][NextDerive]_vars

(***************************************************************************)
(* Properties of the per-call operations.                                  *)
(***************************************************************************)
TickYs(ticks) == {ticks[i].y : i \in 1 .. Len(ticks)}
StrictlyIncreasing(ticks) == \A i \in 1 .. Len(ticks) - 1 : ticks[i].y < ticks[i + 1].y
OfKind(ticks, kind) == SelectSeq(ticks, LAMBDA t : t.tick.kind = kind)

HoldCall == call.fn = "ticks_from_interval" /\ call.interval.l > 0
ChipCall == call.fn = "ticks_from_interval" /\ call.interval.l = 0
LaserCall == call.fn = "ticks_from_laser_section"
ConstantStep == Len(chart.beat.bpm) = 1

\* C2: every Hold tick y of a hold interval satisfies
\* interval.y < y <= interval.y + interval.l - step(y), with step(y) the step
\* valid at y itself, and the ticks are strictly increasing.
C2_HoldTicksWithinOwnStep ==
    HoldCall /\ ret.outcome = "ok" =>
        /\ \A i \in 1 .. Len(ret.ticks) :
               /\ call.interval.y < ret.ticks[i].y
               /\ ret.ticks[i].y + get_hold_step_at(ret.ticks[i].y, chart)
                      <= call.interval.y + call.interval.l
        /\ StrictlyIncreasing(ret.ticks)

\* C3: under a constant step s >= 1, a hold (y0, l) with l >= s yields exactly
\* the multiples of s in (y0, y0 + l - s], ascending, each as Hold{lane}.
C3_ConstantStepMultiples ==
    LET s == get_hold_step_at(0, chart)
        y0 == call.interval.y
        l == call.interval.l
    IN  HoldCall /\ ConstantStep /\ s >= 1 /\ l >= s =>
            /\ ret.outcome = "ok"
            /\ TickYs(ret.ticks) = {y \in 0 .. (y0 + l) : y % s = 0 /\ y > y0 /\ y <= y0 + l - s}
            /\ StrictlyIncreasing(ret.ticks)
            /\ \A i \in 1 .. Len(ret.ticks) : ret.ticks[i].tick = [kind |-> "Hold", lane |-> call.lane]

\* A misaligned hold under a constant step that yields at least two ticks.
C3_Witness ==
    /\ HoldCall /\ ConstantStep /\ ret.outcome = "ok"
    /\ get_hold_step_at(0, chart) > 1
    /\ call.interval.l >= get_hold_step_at(0, chart)
    /\ call.interval.y % get_hold_step_at(0, chart) # 0
    /\ Len(ret.ticks) >= 2

\* C4: an interval with l = 0 yields exactly one tick, Chip{lane} at interval.y,
\* whatever the BPM map and the resolution.
C4_ChipSingleTick ==
    ChipCall =>
        ret = [outcome |-> "ok",
               ticks |-> <<[y |-> call.interval.y,
                            tick |-> [kind |-> "Chip", lane |-> call.lane]]>>]

\* A chip on lane 2 at a positive tick of a chart whose BPM changes.
C4_Witness ==
    /\ ChipCall /\ call.interval.y > 0 /\ call.lane = 2 /\ ~ConstantStep
    /\ Len(ret.ticks) = 1

\* C5: the quantizer returns resolution/2 (integer division) when the BPM
\* active at y is strictly above 255, and resolution/4 otherwise (255 included).
C5_QuantizerThreshold ==
    call.fn = "get_hold_step_at" =>
        LET b == bpm_at_tick(chart, call.y)
            r == chart.beat.resolution
        IN  /\ b >= 256 => 2 * ret.value <= r /\ r < 2 * ret.value + 2
            /\ b <= 255 => 4 * ret.value <= r /\ r < 4 * ret.value + 4

\* The quantizer asked at a tick where the BPM is exactly 255, after a change.
C5_Witness ==
    /\ call.fn = "get_hold_step_at"
    /\ call.y > 0 /\ ~ConstantStep
    /\ bpm_at_tick(chart, call.y) = 255 /\ bpm_at_tick(chart, 0) = 256
    /\ chart.beat.resolution = 6 /\ ret.value = 1

\* The points of the called section that carry a slam target.
SlamPoints == {i \in 1 .. Len(call.section.v) : call.section.v[i].vf # NoValue}

\* C18: within one hold interval the gap between two consecutive Hold ticks
\* is the quantization step valid at the earlier of the two: resolution/4
\* where the BPM is <= 255, resolution/2 where it is > 255.
C18_HoldSpacingIsStep ==
    HoldCall /\ ret.outcome = "ok" =>
        \A i \in 1 .. Len(ret.ticks) - 1 :
            ret.ticks[i + 1].y - ret.ticks[i].y = get_hold_step_at(ret.ticks[i].y, chart)

\* A hold that crosses a BPM change: its ticks follow each other at two
\* different gaps.
C18_Witness ==
    /\ HoldCall /\ ret.outcome = "ok" /\ Len(ret.ticks) >= 3
    /\ \E i \in 1 .. Len(ret.ticks) - 2 :
           ret.ticks[i + 1].y - ret.ticks[i].y # ret.ticks[i + 2].y - ret.ticks[i + 1].y

\* C26: a hold interval whose length l is smaller than the quantization step
\* at its start gives an empty list of Hold ticks, also when interval.y +
\* interval.l < step, where the loop bound is computed in unsigned 32-bit
\* arithmetic: no fault and no wrapped-around bound that admits ticks.
C26_ShortHoldIsEmpty ==
    HoldCall /\ call.interval.l < get_hold_step_at(call.interval.y, chart) =>
        ret = Returned(<<>>)

\* What holds of C26: the short holds whose bound does not underflow.
ShortHoldIsEmptyWithoutUnderflow ==
    /\ HoldCall
    /\ call.interval.l < get_hold_step_at(call.interval.y, chart)
    /\ call.interval.y + call.interval.l >= get_hold_step_at(call.interval.y, chart)
    => ret = Returned(<<>>)

GeneratorCall == call.fn \in {"ticks_from_interval", "ticks_from_laser_section"}

\* C24: for every chart of the data model, whatever its tick resolution and
\* BPM map, the hold and laser generation loops terminate: the position y
\* strictly increases on each iteration until the loop bound is passed.
C24_GeneratorsTerminate ==
    GeneratorCall => ret.outcome # "diverge"

\* One Slam tick per slam point, at section.y + ry with start = v and end = vf,
\* and no other Slam tick.
SlamOncePerPoint(ticks) ==
    LET slams == OfKind(ticks, "Slam")
    IN  /\ Len(slams) = Cardinality(SlamPoints)
        /\ \A i \in SlamPoints :
               LET p == call.section.v[i]
               IN  Cardinality({j \in 1 .. Len(slams) : slams[j].y = call.section.y + p.ry}) = 1
                   /\ \E j \in 1 .. Len(slams) :
                          slams[j] = [y |-> call.section.y + p.ry,
                                      tick |-> [kind |-> "Slam", lane |-> call.lane,
                                                start |-> p.v, end |-> p.vf]]

\* C6: for any laser section, ticks_from_laser_section emits exactly one Slam
\* tick per control point that has a slam target (first, interior, final or
\* only point), at section.y + point.ry with start = point.v and end = point.vf,
\* and none for a point without one.
C6_SlamOncePerPoint ==
    LaserCall => ret.outcome = "ok" /\ SlamOncePerPoint(ret.ticks)

\* What holds of the calls that return: the slams are emitted once per point.
SlamOncePerPointWhenReturned ==
    LaserCall /\ ret.outcome = "ok" => SlamOncePerPoint(ret.ticks)

\* C7: every Laser tick of a section lies strictly after the section's start
\* tick and before its end: section.y < y < section.y + last_point.ry.
C7_LaserTicksInsideSection ==
    LaserCall /\ ret.outcome = "ok" =>
        \A i \in 1 .. Len(ret.ticks) :
            ret.ticks[i].tick.kind = "Laser" =>
                /\ call.section.y < ret.ticks[i].y
                /\ ret.ticks[i].y < call.section.y + call.section.v[Len(call.section.v)].ry

\* The Laser ticks of the section, in the order emitted, and the one step of
\* a chart of constant BPM.
LaserTicks == OfKind(ret.ticks, "Laser")
TheStep == get_hold_step_at(0, chart)
LaserCallAtConstantStep == LaserCall /\ ret.outcome = "ok" /\ ConstantStep

\* The number of control points with a slam after tick a, at or before tick b.
SlamsBetween(a, b) ==
    Cardinality({k \in SlamPoints :
                    /\ a < call.section.y + call.section.v[k].ry
                    /\ call.section.y + call.section.v[k].ry <= b})

\* C19: within one laser section in a region of constant BPM, two consecutive
\* Laser ticks are one quantization step apart, also across segment joins and
\* across control points that carry a slam.
C19_LaserSpacingIsStep ==
    LaserCallAtConstantStep =>
        \A i \in 1 .. Len(LaserTicks) - 1 :
            LaserTicks[i + 1].y - LaserTicks[i].y = TheStep

\* C19 as the code has it: the gap between two consecutive Laser ticks is a
\* whole number of steps, one step where no control point with a slam lies
\* between them (segment joins included), and at most one step more for each
\* control point with a slam between them.
C19_LaserSpacingStepsAcrossSlams ==
    LaserCallAtConstantStep =>
        \A i \in 1 .. Len(LaserTicks) - 1 :
            LET gap == LaserTicks[i + 1].y - LaserTicks[i].y
            IN  /\ gap % TheStep = 0
                /\ gap >= TheStep
                /\ gap <= (1 + SlamsBetween(LaserTicks[i].y, LaserTicks[i + 1].y)) * TheStep

\* A section with Laser ticks one step apart before a slam and two steps
\* apart across it.
C19_Witness ==
    /\ LaserCallAtConstantStep
    /\ \E i \in 1 .. Len(LaserTicks) - 2 :
           /\ LaserTicks[i + 1].y - LaserTicks[i].y = TheStep
           /\ LaserTicks[i + 2].y - LaserTicks[i + 1].y = 2 * TheStep
           /\ SlamsBetween(LaserTicks[i + 1].y, LaserTicks[i + 2].y) = 1

\* The segments of the section of the call: the pairs (v[i], v[i + 1]).
Segments == 1 .. Len(call.section.v) - 1
SegmentFrom(i) == call.section.y + call.section.v[i].ry
SegmentTo(i) == call.section.y + call.section.v[i + 1].ry
SlamSegment(i) == call.section.v[i].vf # NoValue

\* The positions of the periodic ticks of segment i at the constant step: the
\* multiples of the step from the segment's rounded start (one step later in
\* the first segment and after a slam) up to one step before its end.
SegmentGrid(i) ==
    LET from == IF SlamSegment(i) \/ i = 1 THEN SegmentFrom(i) + TheStep ELSE SegmentFrom(i)
    IN  {m \in (from - (from % TheStep)) .. (SegmentTo(i) - TheStep) : m % TheStep = 0}

HasTick(kind, y) ==
    \E k \in 1 .. Len(ret.ticks) : ret.ticks[k].y = y /\ ret.ticks[k].tick.kind = kind

C29_NoSharedPosition ==
    LaserCall /\ ret.outcome = "ok" =>
        \A i, j \in 1 .. Len(ret.ticks) :
            i # j /\ ret.ticks[i].y = ret.ticks[j].y =>
                ret.ticks[i].tick.kind = "Slam" /\ ret.ticks[j].tick.kind = "Slam"

(***************************************************************************)
(* Properties of the compiled timelines.                                   *)
(***************************************************************************)
CompileCall == call.fn = "generate_score_ticks"

\* C1: the sequence returned by generate_score_ticks is sorted in
\* non-decreasing order of y, whatever order the lanes emitted their ticks in.
C1_TimelineSorted ==
    CompileCall /\ ret.outcome = "ok" =>
        \A i \in 1 .. Len(ret.ticks) - 1 : ret.ticks[i].y <= ret.ticks[i + 1].y

\* A compiled chart whose lanes emitted their ticks out of tick order.
C1_Witness ==
    /\ CompileCall /\ ret.outcome = "ok"
    /\ LET u == score_ticks_unsorted(chart, overflow_checks).ticks
       IN  \E i \in 1 .. Len(u) - 1 : u[i].y > u[i + 1].y

\* The outputs of the generators, one call per note and per laser section,
\* the 4 button lanes first, then the 2 FX lanes, then the 2 laser lanes.
IntervalOutputs(lanes) ==
    flatten([k \in 1 .. Len(lanes) |->
        flatten([i \in 1 .. Len(lanes[k]) |->
            ticks_from_interval(lanes[k][i], k - 1, chart, overflow_checks).ticks])])

LaserOutputs(lanes) ==
    flatten([k \in 1 .. Len(lanes) |->
        flatten([i \in 1 .. Len(lanes[k]) |->
            ticks_from_laser_section(lanes[k][i], k - 1, chart, overflow_checks).ticks])])

GeneratorOutputs ==
    IntervalOutputs(chart.note.bt) \o IntervalOutputs(chart.note.fx)
        \o LaserOutputs(chart.note.laser)

Copies(ticks, t) == Cardinality({i \in 1 .. Len(ticks) : ticks[i] = t})

\* C17: the timeline returned by generate_score_ticks is a permutation of the
\* concatenation of the generator outputs over the 4 button lanes, the 2 FX
\* lanes and the 2 laser lanes: every generated tick appears as often as it
\* was generated, and no other tick appears.
C17_TimelineIsPermutation ==
    CompileCall /\ ret.outcome = "ok" =>
        LET generated == GeneratorOutputs
        IN  /\ Len(ret.ticks) = Len(generated)
            /\ \A i \in 1 .. Len(generated) :
                   Copies(ret.ticks, generated[i]) = Copies(generated, generated[i])
            /\ \A i \in 1 .. Len(ret.ticks) :
                   Copies(ret.ticks, ret.ticks[i]) = Copies(generated, ret.ticks[i])

\* A compiled chart with an FX chip and a laser section that gives Laser
\* ticks, where the sort moved a tick.
C17_Witness ==
    /\ CompileCall /\ ret.outcome = "ok"
    /\ IntervalOutputs(chart.note.fx) # <<>>
    /\ LaserOutputs(chart.note.laser) # <<>>
    /\ ret.ticks # GeneratorOutputs

AtPosition(ticks, y) == SelectSeq(ticks, LAMBDA t : t.y = y)

\* C28: the ticks of the compiled timeline that share a position y appear in
\* the order of the concatenation before the sort: button lanes 0..3, then FX
\* lanes 0..1, then laser lanes 0..1, each lane in chart order.
C28_TiesInConcatenationOrder ==
    CompileCall /\ ret.outcome = "ok" =>
        \A y \in {ret.ticks[i].y : i \in 1 .. Len(ret.ticks)} :
            AtPosition(ret.ticks, y) = AtPosition(GeneratorOutputs, y)

\* A timeline in which a button-lane tick and a different laser-lane tick
\* share a position, after a sort that had to move a tick.
C28_Witness ==
    /\ CompileCall /\ ret.outcome = "ok"
    /\ ret.ticks # GeneratorOutputs
    /\ \E i \in 1 .. Len(ret.ticks) - 1 :
           /\ ret.ticks[i].y = ret.ticks[i + 1].y
           /\ ret.ticks[i].tick.kind \in {"Chip", "Hold"}
           /\ ret.ticks[i + 1].tick.kind \in {"Laser", "Slam"}

AllEmpty(lanes) == \A k \in 1 .. Len(lanes) : lanes[k] = <<>>

\* C30: the lane value of a Chip or Hold tick names its source lane uniquely:
\* a tick generated from an FX lane never carries the lane index of a button
\* lane (here: in a chart with FX notes only).
C30_FxLaneIndexDistinct ==
    CompileCall /\ ret.outcome = "ok" /\ AllEmpty(chart.note.bt) =>
        \A i \in 1 .. Len(ret.ticks) :
            ret.ticks[i].tick.kind \in {"Chip", "Hold"} =>
                ret.ticks[i].tick.lane \notin ButtonLanes

(***************************************************************************)
(* Properties of the effect timeline.                                      *)
(***************************************************************************)
EffectsCall == call.fn = "get_effect_tracks"

\* The chart with one more change of key at tick in the bitcrusher's schedule
\* of the FX effects (pass = "fx") or of the laser effects (pass = "laser").
WithChange(list, tick) ==
    LET before == SelectSeq(list, LAMBDA ch : ch.tick < tick)
        after == SelectSeq(list, LAMBDA ch : ch.tick > tick)
    IN  before \o <<[tick |-> tick, param |-> tick + 1]>> \o after

ChartWithChange(c, pass, key, tick) ==
    IF pass = "fx"
    THEN [c EXCEPT !.audio_effect.fx.param_change.bitcrusher[key] = WithChange(@, tick)]
    ELSE [c EXCEPT !.audio_effect.laser.param_change.bitcrusher[key] = WithChange(@, tick)]

ScheduledPass ==
    IF "bitcrusher" \in DOMAIN chart.audio_effect.fx.param_change THEN "fx" ELSE "laser"

ScheduleOfPass ==
    IF ScheduledPass = "fx" THEN chart.audio_effect.fx.param_change.bitcrusher
    ELSE chart.audio_effect.laser.param_change.bitcrusher

\* Adding one change scheduled after an interval's start leaves the interval's
\* resolved effect as it was.
CausalIn(pass) ==
    EffectsCall /\ ScheduledPass = pass =>
        \A key \in DOMAIN ScheduleOfPass, tick \in EffectTicks :
            (\A i \in 1 .. Len(ScheduleOfPass[key]) : ScheduleOfPass[key][i].tick # tick) =>
                LET other == get_effect_tracks(ChartWithChange(chart, pass, key, tick), call.orders)
                IN  /\ Len(other) = Len(ret)
                    /\ \A i \in 1 .. Len(ret) :
                           tick > ret[i].interval.y => other[i] = ret[i]

\* C8: effect resolution is causal in the FX pass and in the laser pass: one
\* additional parameter change scheduled strictly after the resolution tick
\* (the long event's start, the laser section's start) does not change the
\* resolved effect of that interval.
C8_ResolutionCausal == CausalIn("fx") /\ CausalIn("laser")

\* The FX pass alone is causal.
FxPassCausal == CausalIn("fx")

\* The pulse events at or before tick y, as <<name, tick>>.
PulsesUpTo(y) ==
    LET pe == chart.audio_effect.laser.pulse_event
    IN  {p \in UNION {{<<n, pe[n][k]>> : k \in 1 .. Len(pe[n])} : n \in DOMAIN pe} :
            p[2] <= y}

\* C9: in the laser pass the effect definition used for a section is the one
\* named by the pulse event of the greatest tick among all pulse events with
\* tick <= section.y, whatever the iteration order of the pulse-event map; the
\* section is skipped only when there is no such pulse event.
C9_LatestPulseSelected ==
    EffectsCall /\ ScheduledPass = "laser" =>
        \A side \in 1 .. 2 : \A s \in 1 .. Len(chart.note.laser[side]) :
            LET y == chart.note.laser[side][s].y
                emitted == {i \in 1 .. Len(ret) :
                               ret[i].track = [kind |-> "Laser", side |-> side]
                                   /\ ret[i].interval.y = y}
                latest == {p \in PulsesUpTo(y) : \A q \in PulsesUpTo(y) : q[2] <= p[2]}
            IN  IF PulsesUpTo(y) = {} THEN emitted = {}
                ELSE /\ Cardinality(emitted) = 1
                     /\ \A i \in emitted : \E p \in latest :
                            ret[i].effect.type = chart.audio_effect.laser.def[p[1]].type

\* The latest change of key at or before tick at, as a set (empty when none).
LatestChange(list, at) ==
    {i \in 1 .. Len(list) :
        /\ list[i].tick <= at
        /\ \A j \in 1 .. Len(list) : list[j].tick <= at => j <= i}

\* C10: in the FX pass, with each key's changes ascending by tick, the
\* resolved effect of a matched long event has, for every parameter key, the
\* value of the latest change of that key with tick <= start_tick, and the root
\* definition's value when there is none, before any override of the event.
C10_FxLatestChangeWins ==
    EffectsCall /\ ScheduledPass = "fx" =>
        LET fx == chart.audio_effect.fx
        IN  \A name \in DOMAIN fx.long_event : \A side \in 1 .. 2 :
            \A e \in 1 .. Len(fx.long_event[name][side]) :
                LET event == fx.long_event[name][side][e]
                    root == fx.def[name]
                IN  (\E n \in 1 .. Len(chart.note.fx[side]) : chart.note.fx[side][n].y = event.tick) =>
                    \E i \in 1 .. Len(ret) :
                        /\ ret[i].track = [kind |-> "FX", side |-> side]
                        /\ ret[i].interval.y = event.tick
                        /\ ret[i].effect.type = root.type
                        /\ \A key \in DOMAIN root.params \ DOMAIN event.params :
                               LET list == IF key \in DOMAIN fx.param_change[name]
                                           THEN fx.param_change[name][key] ELSE <<>>
                                   latest == LatestChange(list, event.tick)
                               IN  ret[i].effect.params[key] =
                                       IF latest = {} THEN root.params[key]
                                       ELSE [parsed |-> list[CHOOSE j \in latest : TRUE].param]

\* A long event without override at tick 2, after two changes of mix (ticks 0
\* and 2) and before none: the change made at the event's own tick wins.
C10_Witness ==
    /\ EffectsCall /\ ScheduledPass = "fx" /\ Len(ret) = 1
    /\ chart.audio_effect.fx.long_event.bitcrusher[1][1] = [tick |-> 2, params |-> NoParams]
    /\ chart.audio_effect.fx.param_change.bitcrusher.mix
           = <<[tick |-> 0, param |-> 1], [tick |-> 2, param |-> 3]>>
    /\ ret[1].effect.params.mix = [parsed |-> 3]
    /\ ret[1].effect.params.reduction = [parsed |-> 0]

\* The name under which the effect of a resolved snapshot is defined.
NameOfType(type) == IF type = "BitCrusher" THEN "bitcrusher" ELSE "gate"

\* The scheduled changes of one key of one effect (none when not scheduled).
ChangesOf(param_change, name, key) ==
    IF name \in DOMAIN param_change
    THEN IF key \in DOMAIN param_change[name] THEN param_change[name][key] ELSE <<>>
    ELSE <<>>

\* The value a key has after the latest change at or before tick at.
ValueAt(root, list, key, at) ==
    LET latest == LatestChange(list, at)
    IN  IF latest = {} THEN root.params[key]
        ELSE [parsed |-> list[CHOOSE j \in latest : TRUE].param]

LaserIntervals == {i \in 1 .. Len(ret) : ret[i].track.kind = "Laser"}
FxIntervals == {i \in 1 .. Len(ret) : ret[i].track.kind = "FX"}

\* C11: in the laser pass, the resolved effect of a section's interval has,
\* for each parameter key of the selected effect, the value of the latest
\* change of that key with tick <= section.y (the root value when there is
\* none), whether or not other keys have changes scheduled after section.y.
C11_LaserLatestChangeApplied ==
    EffectsCall =>
        \A i \in LaserIntervals :
            LET laser == chart.audio_effect.laser
                name == NameOfType(ret[i].effect.type)
            IN  \A key \in DOMAIN ret[i].effect.params :
                    ret[i].effect.params[key] =
                        ValueAt(laser.def[name], ChangesOf(laser.param_change, name, key),
                                key, ret[i].interval.y)

\* The override params of the long event an FX interval was resolved for.
OverrideOf(i) ==
    LET fx == chart.audio_effect.fx
        events == fx.long_event[NameOfType(ret[i].effect.type)][ret[i].track.side]
        event == events[CHOOSE e \in 1 .. Len(events) : events[e].tick = ret[i].interval.y]
    IN  IF event.params = NoParams THEN <<>> ELSE event.params

\* Every value of the snapshot of interval i that no override set is the
\* root's or that of a change scheduled at or before the interval's start.
NoLaterChange(i, def, param_change, overridden) ==
    LET name == NameOfType(ret[i].effect.type)
    IN  \A key \in DOMAIN ret[i].effect.params \ overridden :
            \/ ret[i].effect.params[key] = def[name].params[key]
            \/ \E j \in 1 .. Len(ChangesOf(param_change, name, key)) :
                   LET change == ChangesOf(param_change, name, key)[j]
                   IN  /\ change.tick <= ret[i].interval.y
                       /\ ret[i].effect.params[key] = [parsed |-> change.param]

\* C12: in both passes no scheduled change with tick strictly greater than the
\* interval's start tick is applied to the interval's resolved effect,
\* changes strictly inside the interval included.
C12_NoChangeAfterStart ==
    EffectsCall =>
        /\ \A i \in FxIntervals :
               NoLaterChange(i, chart.audio_effect.fx.def, chart.audio_effect.fx.param_change,
                             DOMAIN OverrideOf(i))
        /\ \A i \in LaserIntervals :
               NoLaterChange(i, chart.audio_effect.laser.def,
                             chart.audio_effect.laser.param_change, {})

\* A laser section at tick 0 of length 2 whose effect has changes of mix at
\* ticks 0 and 1: the snapshot carries the change of tick 0.
C12_Witness ==
    /\ EffectsCall /\ ScheduledPass = "laser" /\ Len(ret) = 1
    /\ ret[1].interval = [y |-> 0, l |-> 2]
    /\ chart.audio_effect.laser.param_change.bitcrusher.mix
           = <<[tick |-> 0, param |-> 1], [tick |-> 1, param |-> 2]>>
    /\ ret[1].effect.params.mix = [parsed |-> 1]

\* C13: in the FX pass the override params of a long event are applied after
\* the scheduled changes: a key named in the override carries the override's
\* value, and a key not named keeps its scheduled or root value.
C13_OverrideAfterSchedule ==
    EffectsCall =>
        \A i \in FxIntervals :
            LET fx == chart.audio_effect.fx
                name == NameOfType(ret[i].effect.type)
                override == OverrideOf(i)
            IN  \A key \in DOMAIN ret[i].effect.params :
                    ret[i].effect.params[key] =
                        IF key \in DOMAIN override THEN [parsed |-> override[key]]
                        ELSE ValueAt(fx.def[name], ChangesOf(fx.param_change, name, key),
                                     key, ret[i].interval.y)

\* A long event at tick 1 that overrides mix, after scheduled changes of mix
\* (tick 0) and of reduction (tick 1).
C13_Witness ==
    /\ EffectsCall /\ ScheduledPass = "fx" /\ Len(ret) = 1
    /\ chart.audio_effect.fx.long_event.bitcrusher[1][1] = [tick |-> 1, params |-> [mix |-> 9]]
    /\ chart.audio_effect.fx.param_change.bitcrusher
           = [reduction |-> <<[tick |-> 1, param |-> 2]>>, mix |-> <<[tick |-> 0, param |-> 1]>>]
    /\ ret[1].effect.params = [reduction |-> [parsed |-> 2], mix |-> [parsed |-> 9]]

(***************************************************************************)
(* Properties of the ScoreTicker operations.                               *)
(***************************************************************************)
ComboCall == call.fn = "get_combo_at"
SummaryCall == call.fn = "summary"

TicksUpTo(y) == Cardinality({i \in 1 .. Len(score_ticks) : score_ticks[i].y <= y})
TicksBefore(y) == Cardinality({i \in 1 .. Len(score_ticks) : score_ticks[i].y < y})
TickAt(y) == \E i \in 1 .. Len(score_ticks) : score_ticks[i].y = y

\* C14: on any sorted timeline, ticks sharing a position included,
\* get_combo_at(y) is the number of ticks with position <= y when a tick lies
\* exactly at y, and the number of ticks with position < y otherwise.
C14_ComboCountsTicksUpTo ==
    ComboCall => ret.value = IF TickAt(call.y) THEN TicksUpTo(call.y) ELSE TicksBefore(call.y)

\* What holds of C14 on every timeline: the case of no tick at y, and the case
\* of exactly one tick at y.
ComboWithoutSharedPosition ==
    ComboCall /\ TicksUpTo(call.y) - TicksBefore(call.y) <= 1 =>
        ret.value = IF TickAt(call.y) THEN TicksUpTo(call.y) ELSE TicksBefore(call.y)

\* C15: get_combo_at is monotonic non-decreasing on a sorted timeline,
\* whichever matching index the binary search returns: the value returned at
\* call.y is at least every value a lookup at a smaller y can return and at
\* most every value a lookup at a larger y can return.
C15_ComboMonotonic ==
    ComboCall =>
        \A y \in 0 .. MaxComboTick + 1 :
            /\ y < call.y => \A combo \in get_combo_at(score_ticks, y) : combo <= ret.value
            /\ y > call.y => \A combo \in get_combo_at(score_ticks, y) : ret.value <= combo

\* Three ticks at position 1 after one at 0, the search returning the middle
\* one of the three (combo 3), with lookups possible on both sides.
C15_Witness ==
    /\ ComboCall /\ call.y = 1 /\ ret.value = 3
    /\ Len(score_ticks) = 4
    /\ score_ticks[1].y = 0 /\ score_ticks[2].y = 1 /\ score_ticks[4].y = 1

CountOf(kind) == Cardinality({i \in 1 .. Len(score_ticks) : score_ticks[i].tick.kind = kind})

\* C16: summary() returns total = chip_count + hold_count + laser_count +
\* slam_count = the timeline's length, and each of the four counts is the
\* number of ticks of its variant.
C16_SummaryCounts ==
    SummaryCall =>
        /\ ret.value.total = ret.value.chip_count + ret.value.hold_count
                                 + ret.value.laser_count + ret.value.slam_count
        /\ ret.value.total = Len(score_ticks)
        /\ ret.value.chip_count = CountOf("Chip")
        /\ ret.value.hold_count = CountOf("Hold")
        /\ ret.value.laser_count = CountOf("Laser")
        /\ ret.value.slam_count = CountOf("Slam")

\* The summary of a timeline of one tick of each variant.
C16_Witness ==
    /\ SummaryCall
    /\ ret.value = ScoreTickSummary(1, 1, 1, 1, 4)
    /\ Len(score_ticks) = 4

(***************************************************************************)
(* Properties of Effect::derive.                                           *)
(***************************************************************************)
DeriveCall == call.fn = "derive"

\* C20: for every AudioEffect variant, AudioSwap included, derive(key, value)
\* with a key that is not one of the variant's parameter names returns a
\* snapshot equal to the original, and does not fail.
C20_UnknownKeyIsNoOp ==
    DeriveCall /\ call.key \notin param_list(call.effect) =>
        ret.outcome = "ok" /\ ret.value = call.effect

\* What holds of C20: the variants that are records of named parameters.
UnknownKeyIsNoOpOnRecords ==
    DeriveCall /\ call.effect.type # "AudioSwap" /\ call.key \notin param_list(call.effect) =>
        ret.outcome = "ok" /\ ret.value = call.effect

(***************************************************************************)
(* Properties of the effect timeline as a whole.                           *)
(***************************************************************************)
HasAudioEffect == chart.audio_effect # NoAudioEffect

\* Whether the side's FX lane of c has a note starting at tick.
NoteAt(c, side, tick) == \E n \in 1 .. Len(c.note.fx[side]) : c.note.fx[side][n].y = tick

\* The chart without the long events that have no note at their tick.
WithoutUnmatched ==
    LET le == chart.audio_effect.fx.long_event
    IN  [chart EXCEPT !.audio_effect.fx.long_event =
            [name \in DOMAIN le |->
                [side \in 1 .. 2 |->
                    SelectSeq(le[name][side], LAMBDA ev : NoteAt(chart, side, ev.tick))]]]

\* The number of long events of name on side at tick.
EventsAt(name, side, tick) ==
    LET events == chart.audio_effect.fx.long_event[name][side]
    IN  Cardinality({e \in 1 .. Len(events) : events[e].tick = tick})

\* The returned FX intervals of name on side that start at tick.
FxIntervalsAt(name, side, tick) ==
    {i \in FxIntervals : /\ ret[i].track.side = side
                         /\ NameOfType(ret[i].effect.type) = name
                         /\ ret[i].interval.y = tick}

\* The long events of name on side each yield one interval over the note at
\* their tick, and none when the lane has no note there.
OneIntervalPerMatchedEvent(name, side) ==
    \A tick \in EffectTicks :
        /\ Cardinality(FxIntervalsAt(name, side, tick))
               = IF NoteAt(chart, side, tick) THEN EventsAt(name, side, tick) ELSE 0
        /\ \A i \in FxIntervalsAt(name, side, tick) :
               \E n \in 1 .. Len(chart.note.fx[side]) : ret[i].interval = chart.note.fx[side][n]

\* C21: in the FX pass a long event whose tick is the start of no note of the
\* side's FX lane yields no interval and no error, the result is the one of
\* the chart without that event, and a long event whose tick is the start of
\* a note yields exactly one interval, over that note.
C21_UnmatchedDroppedMatchedEmitted ==
    (EffectsCall /\ HasAudioEffect) =>
        /\ ret = get_effect_tracks(WithoutUnmatched, call.orders)
        /\ \A name \in DOMAIN chart.audio_effect.fx.long_event, side \in 1 .. 2 :
               OneIntervalPerMatchedEvent(name, side)

\* C21 for the effects that have a definition in fx.def: as above for their
\* long events, and the long events of an effect without a definition yield
\* no interval.
C21_UnmatchedDroppedDefinedMatchedEmitted ==
    (EffectsCall /\ HasAudioEffect) =>
        /\ ret = get_effect_tracks(WithoutUnmatched, call.orders)
        /\ \A name \in DOMAIN chart.audio_effect.fx.long_event, side \in 1 .. 2 :
               IF name \in DOMAIN chart.audio_effect.fx.def
               THEN OneIntervalPerMatchedEvent(name, side)
               ELSE \A tick \in EffectTicks : FxIntervalsAt(name, side, tick) = {}

\* A bitcrusher event on a note, another one on no note, and a gate event on a
\* note of the other side: two intervals.
C21_Witness ==
    /\ EffectsCall /\ HasAudioEffect
    /\ chart.note.fx = <<<<Interval(0, 1), Interval(2, 1)>>, <<Interval(1, 1)>>>>
    /\ "gate" \in DOMAIN chart.audio_effect.fx.def
    /\ "gate" \in DOMAIN chart.audio_effect.fx.long_event
    /\ chart.audio_effect.fx.long_event.bitcrusher[1]
           = <<[tick |-> 0, params |-> NoParams], [tick |-> 1, params |-> NoParams]>>
    /\ chart.audio_effect.fx.long_event.gate[2] = <<[tick |-> 1, params |-> NoParams]>>
    /\ chart.note.laser = <<<<>>, <<>>>>
    /\ Len(ret) = 2
    /\ ret[1].interval = Interval(0, 1) /\ ret[1].track = TrackFX(1)
    /\ ret[2].interval = Interval(1, 1) /\ ret[2].track = TrackFX(2)

\* The intervals the two passes emit, in emission order.
Emitted == fx_pass(chart, call.orders) \o laser_pass(chart, call.orders)

\* C22: the timeline returned by get_effect_tracks is in non-decreasing order
\* of interval.y over the intervals of both passes, and holds every interval
\* either pass emitted as often as it was emitted, and no other.
C22_EffectTimelineSortedAndComplete ==
    (EffectsCall /\ HasAudioEffect) =>
        /\ \A i, j \in 1 .. Len(ret) : i < j => ret[i].interval.y <= ret[j].interval.y
        /\ Len(ret) = Len(Emitted)
        /\ \A i \in 1 .. Len(Emitted) : Copies(ret, Emitted[i]) = Copies(Emitted, Emitted[i])

\* A laser interval that was emitted after an FX interval and is returned
\* before it.
C22_Witness ==
    /\ EffectsCall /\ HasAudioEffect
    /\ Len(ret) = 2
    /\ ret[1].track.kind = "Laser" /\ ret[1].interval.y = 0
    /\ ret[2].track.kind = "FX" /\ ret[2].interval.y = 2
    /\ Emitted = <<ret[2], ret[1]>>

\* C23: the effect timeline of a chart is the same multiset of (interval,
\* track, resolved effect) whatever the order in which the name-keyed maps
\* are iterated.
C23_EffectTimelineIndependentOfMapOrder ==
    EffectsCall =>
        \A names \in Orders(EffectNames), keys \in Orders(ParamKeys) :
            LET other == get_effect_tracks(chart, [names |-> names, keys |-> keys])
            IN  /\ Len(other) = Len(ret)
                /\ \A i \in 1 .. Len(ret) : Copies(other, ret[i]) = Copies(ret, ret[i])

\* The span of a laser section: from its start over the ry of its last point.
SectionSpan(section) == Interval(section.y, section.v[Len(section.v)].ry)

\* C25: every returned interval has dom = true and a track; an FX interval
\* has the FX track of the side of a long event at its start and is a note
\* of that side's FX lane; a laser interval has the laser track of the side
\* of a section and spans that section.
C25_IntervalsTaggedWithOrigin ==
    (EffectsCall /\ HasAudioEffect) =>
        \A i \in 1 .. Len(ret) :
            /\ ret[i].dom = TRUE
            /\ ret[i].track.kind \in {"FX", "Laser"}
            /\ ret[i].track.side \in 1 .. 2
            /\ ret[i].track.kind = "FX" =>
                   /\ \E n \in 1 .. Len(chart.note.fx[ret[i].track.side]) :
                          ret[i].interval = chart.note.fx[ret[i].track.side][n]
                   /\ EventsAt(NameOfType(ret[i].effect.type), ret[i].track.side,
                               ret[i].interval.y) > 0
            /\ ret[i].track.kind = "Laser" =>
                   \E s \in 1 .. Len(chart.note.laser[ret[i].track.side]) :
                       ret[i].interval = SectionSpan(chart.note.laser[ret[i].track.side][s])

\* An FX interval of the right side and a laser interval of the right side.
C25_Witness ==
    /\ EffectsCall /\ HasAudioEffect
    /\ \E i, j \in 1 .. Len(ret) :
           /\ ret[i].track = TrackFX(2) /\ ret[i].interval = Interval(1, 1)
           /\ ret[j].track = TrackLaser(2) /\ ret[j].interval = Interval(MaxEffectTick, 2)
           /\ ret[j].dom

====
